---------------------------- MODULE Spec2Model ----------------------------
(***************************************************************************)
(* CloudVoice backend: the /chat turn of bridge.py over the process-wide   *)
(* transcript `history`, with the Tool Host of server.py and the Knowledge *)
(* Store of rag.py.                                                        *)
(*                                                                         *)
(* chat() is a coroutine on one event loop: it runs without interruption   *)
(* up to its only await (run_mcp_tool, bridge.py:150).  `loop` is the turn *)
(* that holds the event loop; another request is served only while loop=0. *)
(*                                                                         *)
(* Text is a sequence of string pieces: an f-string is the concatenation   *)
(* of its literal pieces and its interpolated values.                      *)
(***************************************************************************)
EXTENDS Integers, Sequences, FiniteSets, TLC

\* ------------------------------------------------------------------ bounds
MaxTurns == 2
MaxHostHours == 100
MaxHostCalls == 1

\* ------------------------------------------------------------- value sets
NoArg == "<missing>"
None == <<"<None>">>
Absent == <<>>

Prompts == {"deploy a gpu large"}
InstanceTypes == {"gpu.large", "t3.medium"}
HoursVals == {<<10>>}
Topics == {"quantization"}
Passages == {"Quantization reduces memory."}
Texts == {"Which instance type?"}
ToolNames == {"calculate_carbon_footprint", "deploy_instance", "consult_manual", "delete_instance"}
\* run_mcp_tool fails before call_tool (the spawn; a failing initialize takes the
\* same path) or in call_tool.
HostErrors == {"spawn failed", "call_tool failed"}
ProviderErrors == {"provider unreachable"}
StoreErrors == {"collection query failed"}

Turns == 1..MaxTurns

\* The spelling of the instance types, for the substring test of the gate.
Chars(s) ==
    CASE s = "gpu.large" -> <<"g","p","u",".","l","a","r","g","e">>
      [] s = "t3.medium" -> <<"t","3",".","m","e","d","i","u","m">>
      [] s = "m5.large"  -> <<"m","5",".","l","a","r","g","e">>
      [] s = "t3.nano"   -> <<"t","3",".","n","a","n","o">>
      [] OTHER           -> <<>>

\* Python's `sub in s` on strings.
IsSubstring(sub, s) ==
    \E i \in 1..(Len(s) - Len(sub) + 1) : SubSeq(s, i, i + Len(sub) - 1) = sub

\* ------------------------------------------------------------------ state
VARIABLES
    history,     \* the transcript (bridge.py:44)
    turn,        \* the locals of each chat() call and its reply
    loop,        \* the turn running on the event loop, 0 when it is free
    nextId,      \* the provider's next tool_call id
    hostCalls,   \* the call_tool requests the Tool Host has received
    hostReplies, \* the requests the Tool Host has answered, with its text
    popped       \* the entries history.pop() has removed, with the popping turn

vars == <<history, turn, loop, nextId, hostCalls, hostReplies, popped>>

\* ---------------------------------------------------------------- messages
\* A dict entry of history.  obj = FALSE: a Python dict, which has .get.
Dict(role, content, tool_call_id, t) ==
    [role |-> role, obj |-> FALSE, content |-> content, tool_calls |-> 0,
     fn |-> "", tool_call_id |-> tool_call_id, turn |-> t]

\* The provider's message object (completion.choices[0].message), appended
\* as it is.  tool_calls = 0: no tool call; otherwise the id of tool_calls[0].
ProviderMessage(content, id, fn, t) ==
    [role |-> "assistant", obj |-> TRUE, content |-> content, tool_calls |-> id,
     fn |-> fn, tool_call_id |-> 0, turn |-> t]

SystemMessage == Dict("system", <<"You are CloudVoice.">>, 0, 0)

\* --------------------------------------------------------------- replies
\* The "data" key of a reply: absent, None, or the dict of bridge.py:165.
NoData == [key |-> "absent", instance |-> NoArg, footprint |-> Absent]
NullData == [NoData EXCEPT !.key = "null"]
Data(instance, footprint) ==
    [key |-> "value", instance |-> instance, footprint |-> footprint]

NoPending == [key |-> "absent", instance |-> NoArg, tool |-> "", hours |-> Absent]

NoReply ==
    [kind |-> "pending", response |-> Absent, tool_used |-> Absent, data |-> NoData,
     requires_approval |-> FALSE, pending_action |-> NoPending, detail |-> Absent]

\* A returned dict: HTTP 200 with the keys given; the others are absent.
Reply(response, tool_used, data) ==
    [NoReply EXCEPT !.kind = "reply", !.response = response,
                    !.tool_used = tool_used, !.data = data]

\* chat() falling off its end returns None: HTTP 200 with body null.
NullReply == [NoReply EXCEPT !.kind = "null"]

\* HTTPException(status_code=500) without a detail.
Http500_NoDetail(detail) == [NoReply EXCEPT !.kind = "http500"]

\* HTTPException(status_code=500, detail=str(e)).
Http500(detail) == [NoReply EXCEPT !.kind = "http500", !.detail = detail]

\* ------------------------------------------------------------ turn locals
\* hours is <<>> when the key is missing and <<h>> when it is h.
NoArgs == [ok |-> TRUE, instance_type |-> NoArg, hours |-> <<>>, topic |-> NoArg]

IdleTurn ==
    [pc |-> "idle", prompt |-> "", approved |-> FALSE, id |-> 0, fn_name |-> "",
     content |-> Absent, arguments |-> NoArgs, outcome |-> "", tool_result |-> Absent,
     exc |-> Absent, before |-> <<>>,
     consults |-> 0, reply |-> NoReply]

Init ==
    /\ history = <<SystemMessage>>
    /\ turn = [i \in Turns |-> IdleTurn]
    /\ loop = 0
    /\ nextId = 1
    /\ hostCalls = <<>>
    /\ hostReplies = <<>>
    /\ popped = <<>>

\* ------------------------------------------------------- external choices
Malformed == [NoArgs EXCEPT !.ok = FALSE]

\* The argument objects the provider may put in a tool call of `fn`.
ArgumentsFor(fn) ==
    IF fn = "consult_manual"
    THEN {[NoArgs EXCEPT !.topic = tp] : tp \in Topics} \cup {Malformed}
    ELSE IF fn = "calculate_carbon_footprint"
    THEN {[NoArgs EXCEPT !.instance_type = it, !.hours = h] :
              it \in InstanceTypes, h \in HoursVals \cup {<<>>}}
         \cup {Malformed}
    ELSE IF fn = "deploy_instance"
    THEN {[NoArgs EXCEPT !.instance_type = it, !.hours = h] :
              it \in InstanceTypes \cup {NoArg}, h \in HoursVals \cup {<<>>}}
         \cup {Malformed}
    ELSE {[NoArgs EXCEPT !.instance_type = "gpu.large"]}

\* What client.chat.completions.create can do when tools are declared:
\* raise, answer in free text, or request one tool call.
ProviderResponses ==
    {[kind |-> "error", e |-> e, content |-> None, fn |-> "", arguments |-> NoArgs] :
        e \in ProviderErrors}
    \cup {[kind |-> "text", e |-> "", content |-> <<c>>, fn |-> "", arguments |-> NoArgs] :
        c \in Texts}
    \cup UNION {{[kind |-> "tool", e |-> "", content |-> None, fn |-> f, arguments |-> a] :
        a \in ArgumentsFor(f)} : f \in ToolNames}

\* ------------------------------------------------------------- Tool Host
\* str(n) for a natural number, one piece per digit.
RECURSIVE Digits(_)
Digits(n) ==
    IF n < 10 THEN <<ToString(n)>> ELSE Digits(n \div 10) \o <<ToString(n % 10)>>

\* f"{total:.2f} kg" for total = cents / 100.
Format2f(cents) ==
    Digits(cents \div 100) \o <<".", ToString((cents % 100) \div 10),
                                ToString(cents % 10), " kg">>

\* The rate table with a default of 0.0.
Rate_ZeroDefault(inst_type) ==
    CASE inst_type = "t3.medium" -> 5
      [] inst_type = "gpu.large" -> 120
      [] OTHER -> 0

\* emissions_map.get(inst_type, 0.1), in hundredths of a kg per hour.
Rate(inst_type) ==
    CASE inst_type = "t3.medium" -> 5
      [] inst_type = "gpu.large" -> 120
      [] OTHER -> 10

\* int(arguments.get("hours", 0)) / int(hours) of an integer or a missing key.
IntHours(hours) == IF hours = <<>> THEN 0 ELSE hours[1]

\* handle_call_tool: the text the Tool Host returns.
handle_call_tool(name, instance_type, hours) ==
    IF name = "deploy_instance" THEN <<"DEPLOYMENT_INITIATED">>
    ELSE IF name = "calculate_carbon_footprint"
    THEN Format2f(Rate(instance_type) * IntHours(hours))
    ELSE <<"ValueError: Unknown tool: ", name>>

\* run_mcp_tool asking for the deploy tool.
McpToolName_Deploy == "deploy_instance"

\* The tool run_mcp_tool asks the Tool Host for, whatever the turn's tool is.
McpToolName == "calculate_carbon_footprint"

\* The request session.call_tool sends.
HostRequest(instance_type, hours, i) ==
    [name |-> McpToolName, instance_type |-> instance_type,
     hours |-> IntHours(hours), turn |-> i]

\* ------------------------------------------------------------- the gate
Gpu == <<"g", "p", "u">>

\* The gate testing equality with "gpu" instead of containment.
GateTriggers_ExactMatch(instance_type, approved) ==
    Chars(instance_type) = Gpu /\ ~approved

\* A gate that stays open once a deployment has been executed.
GateTriggers_Remembered(instance_type, approved) ==
    /\ IsSubstring(Gpu, Chars(instance_type)) /\ ~approved
    /\ ~\E k \in 1..Len(history) : history[k].content = <<"DEPLOYMENT_INITIATED">>

\* A gate that ignores the approved flag.
GateTriggers_IgnoresApproval(instance_type, approved) ==
    IsSubstring(Gpu, Chars(instance_type))

\* bridge.py:172: "gpu" in instance_type and not query.approved
GateTriggers(instance_type, approved) ==
    IsSubstring(Gpu, Chars(instance_type)) /\ ~approved

\* bridge.py:175
ApprovalMsg(instance_type) ==
    <<"Deploying ", instance_type, " requires authorization. Proceed?">>

\* The pending action naming the wrong tool.
PendingAction_WrongTool(instance_type, hours) ==
    [key |-> "value", instance |-> instance_type, tool |-> "calculate_carbon_footprint",
     hours |-> Absent]

\* bridge.py:180
PendingAction(instance_type, hours) ==
    [key |-> "value", instance |-> instance_type, tool |-> "deploy_instance",
     hours |-> Absent]

\* bridge.py:177-181
ApprovalReply(instance_type, hours) ==
    [NoReply EXCEPT !.kind = "reply", !.response = ApprovalMsg(instance_type),
                    !.requires_approval = TRUE,
                    !.pending_action = PendingAction(instance_type, hours)]

\* ------------------------------------------------------------ transcript
Last(h) == h[Len(h)]

\* history.pop(0): the first entry is removed.
Pop_First(h) == SubSeq(h, 2, Len(h))

\* history.pop()
Pop(h) == SubSeq(h, 1, Len(h) - 1)

\* Python attribute lookup of .get on an entry.  The entries chat() builds
\* are dicts and have it; the provider's message is appended as the object
\* the client returned (bridge.py:127-130, read by attribute at 133-135),
\* which is not a mapping: .get on it raises AttributeError.
HasGet(m) == ~m.obj

\* m.get("tool_calls") of a dict entry.
GetToolCalls(m) == m.tool_calls

Finish(i, reply) ==
    [turn EXCEPT ![i].pc = "done", ![i].reply = reply]

\* ---------------------------------------------------------------- actions
\* A request arrives and chat() starts: bridge.py:63-68.
Start(i) ==
    /\ loop = 0
    /\ turn[i].pc = "idle"
    /\ \A j \in Turns : j < i => turn[j].pc # "idle"
    /\ \E prompt \in Prompts, approved \in BOOLEAN :
        /\ history' = Append(history, Dict("user", <<prompt>>, 0, i))
        /\ turn' = [turn EXCEPT ![i].pc = "ask", ![i].prompt = prompt,
                                ![i].approved = approved, ![i].before = history]
    /\ loop' = i
    /\ UNCHANGED <<nextId, hostCalls, hostReplies, popped>>

\* bridge.py:120-130: ask the provider and append its message.
AskProvider(i) ==
    /\ loop = i
    /\ turn[i].pc = "ask"
    /\ \E r \in ProviderResponses :
        CASE r.kind = "error" ->
               /\ turn' = [turn EXCEPT ![i].pc = "except", ![i].exc = <<r.e>>,
                                       ![i].consults = @ + 1]
               /\ UNCHANGED <<history, nextId>>
          [] r.kind = "text" ->
               /\ history' = Append(history, ProviderMessage(r.content, 0, "", i))
               /\ turn' = [turn EXCEPT ![i].pc = "check", ![i].content = r.content,
                                       ![i].consults = @ + 1]
               /\ UNCHANGED nextId
          [] OTHER ->
               /\ history' = Append(history, ProviderMessage(None, nextId, r.fn, i))
               /\ turn' = [turn EXCEPT ![i].pc = "check", ![i].id = nextId,
                                       ![i].content = None,
                                       ![i].fn_name = r.fn, ![i].arguments = r.arguments,
                                       ![i].consults = @ + 1]
               /\ nextId' = nextId + 1
    /\ UNCHANGED <<loop, hostCalls, hostReplies, popped>>

\* The free-text reply without its tool_used key.
FreeTextReply_NoToolUsed(content) == Reply(content, Absent, NoData)

\* bridge.py:238-241
FreeTextReply(content) == Reply(content, None, NoData)

\* bridge.py:133-142 and 236-241: free text returns; a tool call is parsed.
CheckToolUse(i) ==
    /\ loop = i
    /\ turn[i].pc = "check"
    /\ IF turn[i].id = 0
       THEN /\ turn' = Finish(i, FreeTextReply(turn[i].content))
            /\ loop' = 0
       ELSE IF ~turn[i].arguments.ok
       THEN /\ turn' = [turn EXCEPT ![i].pc = "except", ![i].exc = <<"JSONDecodeError">>]
            /\ UNCHANGED loop
       ELSE /\ turn' = [turn EXCEPT ![i].pc = "dispatch"]
            /\ UNCHANGED loop
    /\ UNCHANGED <<history, nextId, hostCalls, hostReplies, popped>>

\* bridge.py:147-150: the footprint branch enters run_mcp_tool and is
\* suspended there; the event loop is free for other requests.
CalcCall(i) ==
    /\ loop = i
    /\ turn[i].pc = "dispatch"
    /\ turn[i].fn_name = "calculate_carbon_footprint"
    /\ turn' = [turn EXCEPT ![i].pc = "await"]
    /\ loop' = 0
    /\ UNCHANGED <<history, nextId, hostCalls, hostReplies, popped>>

\* The error text without str(e).
ErrorResult_NoDetail(e) == <<"Error executing tool">>

\* bridge.py:152
ErrorResult(e) == <<"Error executing tool: ", e>>

\* bridge.py:31-41 with 148-152: the value of tool_result when run_mcp_tool
\* ends as `outcome`: "ok", or the exception it raises.
ToolResult(instance_type, hours, outcome) ==
    IF outcome = "ok"
    THEN handle_call_tool(McpToolName, instance_type, hours)
    ELSE ErrorResult(outcome)

\* The footprint Tool Result without its tool_call_id.
CalcToolMessage_NoId(id, tool_result, i) == Dict("tool", tool_result, 0, i)

\* bridge.py:156-160
CalcToolMessage(id, tool_result, i) == Dict("tool", tool_result, id, i)

\* The footprint reply without the echoed instance type.
CalcReply_NoInstance(instance_type, tool_result) ==
    Reply(<<"Estimated emissions: ">> \o tool_result, <<"calculate_carbon_footprint">>,
          Data(NoArg, tool_result))

\* bridge.py:162-166
CalcReply(instance_type, tool_result) ==
    Reply(<<"Estimated emissions: ">> \o tool_result, <<"calculate_carbon_footprint">>,
          Data(instance_type, tool_result))

\* run_mcp_tool returns or raises, and the branch runs to its return:
\* bridge.py:150-166.  A spawn failure never reaches call_tool.
CalcReturn(i) ==
    /\ loop = 0
    /\ turn[i].pc = "await"
    /\ \E outcome \in {"ok"} \cup HostErrors :
        LET a == turn[i].arguments
            tool_result == ToolResult(a.instance_type, a.hours, outcome)
        IN  /\ hostCalls' = IF outcome \in {"ok", "call_tool failed"}
                            THEN Append(hostCalls, HostRequest(a.instance_type, a.hours, i))
                            ELSE hostCalls
            /\ hostReplies' = IF outcome = "ok"
                              THEN Append(hostReplies,
                                          [request |-> HostRequest(a.instance_type, a.hours, i),
                                           text |-> tool_result])
                              ELSE hostReplies
            /\ history' = Append(history, CalcToolMessage(turn[i].id, tool_result, i))
            /\ turn' = [Finish(i, CalcReply(a.instance_type, tool_result))
                           EXCEPT ![i].tool_result = tool_result,
                                  ![i].outcome = outcome]
    /\ UNCHANGED <<loop, nextId, popped>>

\* The Tool Result carrying the id of the request before this one.
DeployToolMessage_StaleId(id, i) == Dict("tool", <<"DEPLOYMENT_INITIATED">>, id - 1, i)

\* bridge.py:185-189
DeployToolMessage(id, i) == Dict("tool", <<"DEPLOYMENT_INITIATED">>, id, i)

\* bridge.py:191-195
DeployReply(instance_type) ==
    Reply(<<"Deployment Initiated for ", instance_type, ". Monitoring started.">>,
          <<"deploy_instance">>, NullData)

\* The gate without its history.pop().
AfterGate_NoPop(h, instance_type, i) ==
    Append(h, Dict("assistant", ApprovalMsg(instance_type), 0, i))

\* bridge.py:174-176: the transcript after the gate has paused the turn.
AfterGate(h, instance_type, i) ==
    Append(Pop(h), Dict("assistant", ApprovalMsg(instance_type), 0, i))

\* bridge.py:171-195.  `"gpu" in None` raises TypeError.
Deploy(i) ==
    /\ loop = i
    /\ turn[i].pc = "dispatch"
    /\ turn[i].fn_name = "deploy_instance"
    /\ LET a == turn[i].arguments IN
       IF a.instance_type = NoArg
       THEN /\ turn' = [turn EXCEPT ![i].pc = "except", ![i].exc = <<"TypeError">>]
            /\ UNCHANGED <<history, loop, popped>>
       ELSE IF GateTriggers(a.instance_type, turn[i].approved)
       THEN /\ history' = AfterGate(history, a.instance_type, i)
            /\ popped' = Append(popped, [entry |-> Last(history), by |-> i])
            /\ turn' = Finish(i, ApprovalReply(a.instance_type, a.hours))
            /\ loop' = 0
       ELSE /\ history' = Append(history, DeployToolMessage(turn[i].id, i))
            /\ turn' = Finish(i, DeployReply(a.instance_type))
            /\ loop' = 0
            /\ UNCHANGED popped
    /\ UNCHANGED <<nextId, hostCalls, hostReplies>>

\* rag.py:20-34 as seen from bridge.py:202-208: the import may fail, the
\* query may raise, and otherwise a passage or None comes back.
StoreOutcomes ==
    {[kind |-> "ImportError", e |-> "", knowledge |-> None]}
    \cup {[kind |-> "raise", e |-> e, knowledge |-> None] : e \in StoreErrors}
    \cup {[kind |-> "value", e |-> "", knowledge |-> None]}
    \cup {[kind |-> "value", e |-> "", knowledge |-> <<p>>] : p \in Passages}

\* The lookup result reported as found whatever came back.
ResultText_AlwaysFound(knowledge) == <<"Found: ">> \o knowledge

\* bridge.py:209
ResultText(knowledge) ==
    IF knowledge # None THEN <<"Found: ">> \o knowledge
    ELSE <<"I couldn't find that in the manual.">>

ErrMsg == <<"RAG module not found.">>

\* bridge.py:200-216 and 230-234.
ManualSearch(i) ==
    /\ loop = i
    /\ turn[i].pc = "dispatch"
    /\ turn[i].fn_name = "consult_manual"
    /\ \E o \in StoreOutcomes :
        CASE o.kind = "ImportError" ->
               /\ history' = Append(history, Dict("tool", ErrMsg, turn[i].id, i))
               /\ turn' = [Finish(i, Reply(ErrMsg, Absent, NoData))
                              EXCEPT ![i].tool_result = ErrMsg]
               /\ loop' = 0
          [] o.kind = "raise" ->
               /\ turn' = [turn EXCEPT ![i].pc = "except", ![i].exc = <<o.e>>]
               /\ UNCHANGED <<history, loop>>
          [] OTHER ->
               /\ history' = Append(history,
                                    Dict("tool", ResultText(o.knowledge), turn[i].id, i))
               /\ turn' = [turn EXCEPT ![i].pc = "summarize",
                                       ![i].tool_result = ResultText(o.knowledge),
                                       ![i].outcome = IF o.knowledge = None
                                                      THEN "miss" ELSE "found"]
               /\ UNCHANGED loop
    /\ UNCHANGED <<nextId, hostCalls, hostReplies, popped>>

\* bridge.py:219-229: the second consultation, without tools.
ManualSummarize(i) ==
    /\ loop = i
    /\ turn[i].pc = "summarize"
    /\ \/ \E e \in ProviderErrors :
            /\ turn' = [turn EXCEPT ![i].pc = "except", ![i].exc = <<e>>,
                                    ![i].consults = @ + 1]
            /\ UNCHANGED <<history, loop>>
       \/ \E c \in Texts :
            /\ history' = Append(history, ProviderMessage(<<c>>, 0, "", i))
            /\ turn' = [Finish(i, Reply(<<c>>, <<"consult_manual">>, NoData))
                           EXCEPT ![i].consults = @ + 1]
            /\ loop' = 0
    /\ UNCHANGED <<nextId, hostCalls, hostReplies, popped>>

\* bridge.py:147, 171, 200: the names the if/elif chain tests.
DispatchedTools == {"calculate_carbon_footprint", "deploy_instance", "consult_manual"}

\* No branch matches: the chain ends and chat() returns None.
NoBranch(i) ==
    /\ loop = i
    /\ turn[i].pc = "dispatch"
    /\ turn[i].fn_name \notin DispatchedTools
    /\ turn' = Finish(i, NullReply)
    /\ loop' = 0
    /\ UNCHANGED <<history, nextId, hostCalls, hostReplies, popped>>

\* bridge.py:247: history[-1].get raises AttributeError when the last entry
\* is the provider's message object.
HandlerRaises(h) == Len(h) > 0 /\ ~HasGet(Last(h))

\* bridge.py:247-248: the handler pops.
HandlerPops(h) == Len(h) > 0 /\ HasGet(Last(h)) /\ GetToolCalls(Last(h)) # 0

\* bridge.py:243-249.  An exception raised in the handler leaves chat()
\* unhandled: the server answers 500 Internal Server Error.
Except(i) ==
    /\ loop = i
    /\ turn[i].pc = "except"
    /\ IF HandlerRaises(history)
       THEN /\ turn' = Finish(i, Http500(<<"Internal Server Error">>))
            /\ UNCHANGED <<history, popped>>
       ELSE IF HandlerPops(history)
       THEN /\ history' = Pop(history)
            /\ popped' = Append(popped, [entry |-> Last(history), by |-> i])
            /\ turn' = Finish(i, Http500(turn[i].exc))
       ELSE /\ turn' = Finish(i, Http500(turn[i].exc))
            /\ UNCHANGED <<history, popped>>
    /\ loop' = 0
    /\ UNCHANGED <<nextId, hostCalls, hostReplies>>

Next ==
    \E i \in Turns :
        \/ Start(i)
        \/ AskProvider(i)
        \/ CheckToolUse(i)
        \/ CalcCall(i)
        \/ CalcReturn(i)
        \/ Deploy(i)
        \/ ManualSearch(i)
        \/ ManualSummarize(i)
        \/ NoBranch(i)
        \/ Except(i)

Spec == Init /\ [][Next]_vars

\* ------------------------------------------------------------ properties
Done(i) == turn[i].pc = "done"

\* The turn's provider message was a Tool Invocation Request that parsed.
Requested(i, fn) ==
    turn[i].id # 0 /\ turn[i].fn_name = fn /\ turn[i].arguments.ok

IsRequest(m) == m.role = "assistant" /\ m.tool_calls # 0
IsResult(m) == m.role = "tool"

\* Entry k of h is a Tool Invocation Request with no later Tool Result of its id.
Unanswered(h, k) ==
    /\ IsRequest(h[k])
    /\ ~\E l \in (k + 1)..Len(h) : IsResult(h[l]) /\ h[l].tool_call_id = h[k].tool_calls

\* The transcript holds a Tool Result with this correlation identifier.
HasResult(id) == \E k \in 1..Len(history) : IsResult(history[k]) /\ history[k].tool_call_id = id

\* The transcript holds the Tool Invocation Request with this identifier.
HasRequest(id) == \E k \in 1..Len(history) : IsRequest(history[k]) /\ history[k].tool_calls = id

\* The Tool Host has received a call made by turn i.
HostInvokedBy(i) == \E k \in 1..Len(hostCalls) : hostCalls[k].turn = i

\* The piece e occurs in the text.
Mentions(text, e) == \E k \in 1..Len(text) : text[k] = e

HighImpact(instance_type) == IsSubstring(Gpu, Chars(instance_type))

\* No turn is in progress or suspended.
AtRest == \A i \in Turns : turn[i].pc \in {"idle", "done"}

\* C1: a turn whose provider request is deploy_instance for an instance type
\* containing "gpu", with approved = false, never executes the deployment:
\* the transcript never holds a Tool Result for its request, the Tool Host is
\* never invoked for it, and its reply has requires_approval = true and no
\* tool_used = "deploy_instance".
C1_GateSafety ==
    \A i \in Turns :
        (/\ Requested(i, "deploy_instance")
         /\ HighImpact(turn[i].arguments.instance_type)
         /\ ~turn[i].approved)
        => /\ ~HasResult(turn[i].id)
           /\ ~HostInvokedBy(i)
           /\ Done(i) => /\ turn[i].reply.kind = "reply"
                         /\ turn[i].reply.requires_approval
                         /\ turn[i].reply.tool_used # <<"deploy_instance">>

C1_Witness ==
    \E i \in Turns :
        /\ Done(i) /\ Requested(i, "deploy_instance")
        /\ turn[i].arguments.instance_type = "gpu.large"
        /\ ~turn[i].approved
        /\ turn[i].reply.requires_approval

\* C2: whenever every turn has finished, whatever its outcome, the transcript
\* holds no Tool Invocation Request that lacks a later Tool Result with the
\* same correlation identifier.
C2_NoUnansweredAtRest ==
    AtRest => \A k \in 1..Len(history) : ~Unanswered(history, k)

\* C3 as stated: a calculate_carbon_footprint turn for "gpu.large" with
\* approved = false replies requires_approval = true without dispatching to
\* the Tool Host, and with approved = true it replies data.instance = "gpu.large".
C3_GateAppliesToFootprint ==
    \A i \in Turns :
        (/\ Done(i) /\ Requested(i, "calculate_carbon_footprint")
         /\ turn[i].arguments.instance_type = "gpu.large")
        => IF turn[i].approved
           THEN turn[i].reply.data.instance = "gpu.large"
           ELSE turn[i].reply.requires_approval /\ ~HostInvokedBy(i)

\* C3 amended: the gate is not applied to calculate_carbon_footprint: a
\* finished footprint turn for "gpu.large" is dispatched whatever approved is;
\* its reply never has requires_approval, has tool_used =
\* "calculate_carbon_footprint" and data.instance = "gpu.large", its request is
\* answered by a Tool Result, and the Tool Host has received its call unless
\* the spawn or the handshake failed.
C3_FootprintNotGated ==
    \A i \in Turns :
        (/\ Done(i) /\ Requested(i, "calculate_carbon_footprint")
         /\ turn[i].arguments.instance_type = "gpu.large")
        => /\ turn[i].reply.kind = "reply"
           /\ ~turn[i].reply.requires_approval
           /\ turn[i].reply.tool_used = <<"calculate_carbon_footprint">>
           /\ turn[i].reply.data.key = "value"
           /\ turn[i].reply.data.instance = "gpu.large"
           /\ HasResult(turn[i].id)
           /\ turn[i].outcome \in {"ok", "call_tool failed"} => HostInvokedBy(i)

C3_Witness ==
    \E i \in Turns :
        /\ Done(i) /\ Requested(i, "calculate_carbon_footprint")
        /\ turn[i].arguments.instance_type = "gpu.large"
        /\ ~turn[i].approved
        /\ HostInvokedBy(i)
        /\ turn[i].reply.data.instance = "gpu.large"

\* C4: the step in which the gate pauses a turn leaves the transcript equal
\* to the transcript before the turn followed by exactly the turn's User
\* message and one Assistant free-text message asking for confirmation: the
\* pending request is gone and every earlier message is unchanged.
C4_GatedTranscript ==
    [][\A i \in Turns :
          (~Done(i) /\ turn'[i].pc = "done" /\ turn'[i].reply.requires_approval)
          => history' = turn[i].before \o
                 <<Dict("user", <<turn[i].prompt>>, 0, i),
                   Dict("assistant",
                        <<"Deploying ", turn[i].arguments.instance_type,
                          " requires authorization. Proceed?">>, 0, i)>>]_vars

\* A gated turn that started on a transcript already holding earlier turns.
C4_Witness ==
    \E i \in Turns :
        /\ Done(i) /\ turn[i].reply.requires_approval
        /\ Len(turn[i].before) > 1
        /\ Len(popped) > 0
        /\ history = turn[i].before \o
               <<Dict("user", <<turn[i].prompt>>, 0, i),
                 Dict("assistant", ApprovalMsg(turn[i].arguments.instance_type), 0, i)>>

\* C5 as stated: a reply with requires_approval = true has a pending_action
\* that echoes the tool name, the instance type and the duration in hours of
\* the gated request.
C5_PendingEchoesDuration ==
    \A i \in Turns :
        (Done(i) /\ turn[i].reply.requires_approval)
        => /\ turn[i].reply.pending_action.tool = turn[i].fn_name
           /\ turn[i].reply.pending_action.instance = turn[i].arguments.instance_type
           /\ turn[i].reply.pending_action.hours = <<IntHours(turn[i].arguments.hours)>>

\* C5 amended: a reply with requires_approval = true has a pending_action
\* that echoes the instance type and the tool name of the gated request, for
\* every instance type and hours value; it carries no duration.
C5_PendingEchoesInstance ==
    \A i \in Turns :
        (Done(i) /\ turn[i].reply.requires_approval)
        => /\ turn[i].reply.pending_action.key = "value"
           /\ turn[i].reply.pending_action.tool = turn[i].fn_name
           /\ turn[i].reply.pending_action.instance = turn[i].arguments.instance_type
           /\ turn[i].reply.pending_action.hours = Absent

C5_Witness ==
    \E i \in Turns :
        /\ Done(i) /\ turn[i].reply.requires_approval
        /\ turn[i].arguments.hours = <<10>>
        /\ turn[i].reply.pending_action.instance = "gpu.large"

\* C6: after a turn that returned requires_approval = true, a later turn
\* with approved = true in which the provider requests the same high-impact
\* tool call executes it: the transcript holds that turn's request followed
\* by a Tool Result whose correlation identifier is the identifier of the
\* request appended in that second turn, which differs from the identifier
\* of the request removed in the first turn, and no Tool Result carries the
\* removed request's identifier.
C6_TwoPhaseApproval ==
    \A i, j \in Turns :
        (/\ i < j /\ Done(i) /\ Done(j)
         /\ turn[i].reply.requires_approval
         /\ turn[j].approved
         /\ Requested(j, turn[i].fn_name)
         /\ turn[j].arguments = turn[i].arguments)
        => /\ turn[j].reply.kind = "reply"
           /\ turn[j].reply.tool_used = <<turn[j].fn_name>>
           /\ ~turn[j].reply.requires_approval
           /\ turn[j].id # turn[i].id
           /\ ~HasResult(turn[i].id)
           /\ \E k, l \in 1..Len(history) :
                /\ k < l
                /\ IsRequest(history[k]) /\ history[k].turn = j
                /\ history[k].tool_calls = turn[j].id
                /\ IsResult(history[l]) /\ history[l].turn = j
                /\ history[l].tool_call_id = turn[j].id
                /\ history[l].content = <<"DEPLOYMENT_INITIATED">>

C6_Witness ==
    \E i, j \in Turns :
        /\ i < j /\ Done(i) /\ Done(j)
        /\ turn[i].reply.requires_approval
        /\ turn[j].approved
        /\ Requested(j, "deploy_instance")
        /\ turn[j].prompt = turn[i].prompt
        /\ turn[j].arguments = turn[i].arguments
        /\ HasResult(turn[j].id)

\* The turn's deploy_instance request passed the gate: approved, or an
\* instance type that is not high-impact.
PassedGate(i) ==
    /\ Requested(i, "deploy_instance")
    /\ turn[i].arguments.instance_type # NoArg
    /\ (turn[i].approved \/ ~HighImpact(turn[i].arguments.instance_type))

\* C7 as stated: every deploy_instance turn that passes the gate has
\* forwarded the request to the Tool Host's deploy_instance tool by the time
\* its Tool Result is in the transcript and its reply is returned.
C7_DeployForwarded ==
    \A i \in Turns :
        (PassedGate(i) /\ (Done(i) \/ HasResult(turn[i].id)))
        => \E k \in 1..Len(hostCalls) :
              hostCalls[k].turn = i /\ hostCalls[k].name = "deploy_instance"

\* C7 amended: every deploy_instance turn that passes the gate appends the
\* synthetic Tool Result "DEPLOYMENT_INITIATED" under its request's
\* identifier and replies confirming initiation without invoking the Tool
\* Host; the only tool the Tool Host is ever asked for is
\* calculate_carbon_footprint.
C7_DeploySynthetic ==
    /\ \A i \in Turns :
        (PassedGate(i) /\ Done(i))
        => /\ \E k \in 1..Len(history) :
                /\ IsResult(history[k]) /\ history[k].tool_call_id = turn[i].id
                /\ history[k].content = <<"DEPLOYMENT_INITIATED">>
           /\ turn[i].reply.kind = "reply"
           /\ turn[i].reply.tool_used = <<"deploy_instance">>
           /\ turn[i].reply.response =
                <<"Deployment Initiated for ", turn[i].arguments.instance_type,
                  ". Monitoring started.">>
           /\ ~HostInvokedBy(i)
    /\ \A k \in 1..Len(hostCalls) : hostCalls[k].name = "calculate_carbon_footprint"

\* An approved gpu deploy has finished and the Tool Host has served another turn.
C7_Witness ==
    \E i \in Turns :
        /\ PassedGate(i) /\ Done(i) /\ turn[i].approved
        /\ turn[i].arguments.instance_type = "gpu.large"
        /\ HasResult(turn[i].id)
        /\ Len(hostCalls) > 0

\* C8: if the Tool Host invocation raises during a calculate_carbon_footprint
\* turn, the turn returns a normal reply (no HTTP 500) whose response contains
\* the error description, and the transcript holds a Tool Result with the
\* request's correlation identifier whose content contains that error
\* description, placed after the request.
C8_ToolFailureRecoverable ==
    \A i \in Turns :
        (Done(i) /\ Requested(i, "calculate_carbon_footprint")
         /\ turn[i].outcome \in HostErrors)
        => /\ turn[i].reply.kind = "reply"
           /\ Mentions(turn[i].reply.response, turn[i].outcome)
           /\ \E k, l \in 1..Len(history) :
                /\ k < l
                /\ IsRequest(history[k]) /\ history[k].tool_calls = turn[i].id
                /\ IsResult(history[l]) /\ history[l].tool_call_id = turn[i].id
                /\ Mentions(history[l].content, turn[i].outcome)
                /\ ~Unanswered(history, k)

C8_Witness ==
    \E i \in Turns :
        /\ Done(i) /\ Requested(i, "calculate_carbon_footprint")
        /\ turn[i].outcome = "call_tool failed"
        /\ turn[i].reply.kind = "reply"
        /\ HasResult(turn[i].id)

\* C9: a turn that ends in HTTP 500 after its Tool Invocation Request was
\* appended and before any Tool Result answered it (malformed arguments, a
\* missing instance_type in the gate test, the Knowledge Store raising) has
\* had that request removed from the transcript.
C9_RollbackOnFailure ==
    \A i \in Turns :
        (/\ Done(i) /\ turn[i].reply.kind = "http500"
         /\ turn[i].id # 0
         /\ turn[i].tool_result = Absent)
        => ~HasRequest(turn[i].id)

\* The provider, consulted by turn i, raised.
ProviderFailed(i) ==
    turn[i].exc # Absent /\ turn[i].exc[1] \in ProviderErrors

\* The spawn or the handshake of run_mcp_tool failed in turn i.
TransportFailed(i) == turn[i].outcome = "spawn failed"

\* Turn i has left no Tool Invocation Request of its own without a Tool Result.
NoDanglingOwn(i) ==
    \A k \in 1..Len(history) : history[k].turn = i => ~Unanswered(history, k)

\* C10 as stated: a turn in which the spawn or handshake towards the Tool
\* Host, or a call to the Completion Provider, fails ends with HTTP 500 and an
\* error detail and leaves no unanswered request.
C10_TransportFatal ==
    \A i \in Turns :
        (Done(i) /\ (TransportFailed(i) \/ ProviderFailed(i)))
        => /\ turn[i].reply.kind = "http500"
           /\ turn[i].reply.detail # Absent
           /\ NoDanglingOwn(i)

\* C10 amended: a failure of the Completion Provider ends the turn with HTTP
\* 500 whose detail is the error; a spawn or handshake failure towards the
\* Tool Host is not fatal: it ends the turn with a normal reply whose response
\* contains the error, and a Tool Result with that error answers the request.
\* Either way the turn leaves no unanswered request of its own in the
\* transcript and gives the event loop back, so a later turn can start.
C10_TransportFailure ==
    \A i \in Turns :
        /\ (Done(i) /\ ProviderFailed(i))
           => /\ turn[i].reply.kind = "http500"
              /\ turn[i].reply.detail = turn[i].exc
              /\ NoDanglingOwn(i)
              /\ loop # i
        /\ (Done(i) /\ TransportFailed(i))
           => /\ turn[i].reply.kind = "reply"
              /\ Mentions(turn[i].reply.response, turn[i].outcome)
              /\ HasResult(turn[i].id)
              /\ NoDanglingOwn(i)
              /\ loop # i
        /\ (Done(i) /\ (ProviderFailed(i) \/ TransportFailed(i))
            /\ loop = 0 /\ i < MaxTurns /\ turn[i + 1].pc = "idle")
           => ENABLED Start(i + 1)

\* A turn that followed a provider failure or a spawn failure ended with a
\* normal footprint reply.
C10_Witness ==
    \E i, j \in Turns :
        /\ i < j /\ Done(i) /\ Done(j)
        /\ (ProviderFailed(i) \/ TransportFailed(i))
        /\ turn[j].reply.kind = "reply"
        /\ turn[j].reply.tool_used = <<"calculate_carbon_footprint">>
        /\ turn[j].outcome = "ok"

\* C11 as stated: a turn whose Tool Invocation Request names a tool that is
\* none of calculate_carbon_footprint, deploy_instance and consult_manual is
\* rejected with a descriptive error (an error reply or HTTP 500 with a
\* detail) without any dispatch, and its request is not left unanswered.
C11_UnknownToolRejected ==
    \A i \in Turns :
        (Done(i) /\ turn[i].id # 0 /\ turn[i].arguments.ok
         /\ turn[i].fn_name \notin {"calculate_carbon_footprint", "deploy_instance",
                                    "consult_manual"})
        => /\ \/ turn[i].reply.kind = "http500" /\ turn[i].reply.detail # Absent
              \/ turn[i].reply.kind = "reply" /\ turn[i].reply.response # Absent
           /\ ~HostInvokedBy(i)
           /\ NoDanglingOwn(i)

\* C12: the step that ends a turn in which the provider returned free text
\* leaves a reply with tool_used = None and the provider's text as response,
\* and a transcript equal to the transcript before the turn followed by the
\* turn's User message and, last, exactly the provider's Assistant message.
C12_FreeText ==
    [][\A i \in Turns :
          (turn[i].pc = "check" /\ turn[i].id = 0 /\ turn'[i].pc = "done")
          => /\ turn'[i].reply.kind = "reply"
             /\ turn'[i].reply.tool_used = None
             /\ turn'[i].reply.requires_approval = FALSE
             /\ turn'[i].reply.response = turn[i].content
             /\ history' = turn[i].before \o
                    <<Dict("user", <<turn[i].prompt>>, 0, i),
                      [role |-> "assistant", obj |-> TRUE, content |-> turn[i].content,
                       tool_calls |-> 0, fn |-> "", tool_call_id |-> 0, turn |-> i]>>]_vars

\* A free-text turn has ended on a transcript that already held earlier turns.
C12_Witness ==
    \E i \in Turns :
        /\ Done(i) /\ turn[i].id = 0 /\ turn[i].reply.kind = "reply"
        /\ turn[i].content \in {<<c>> : c \in Texts}
        /\ turn[i].reply.response = turn[i].content
        /\ Len(turn[i].before) > 1
        /\ Last(history).turn = i /\ Last(history).content = turn[i].content

\* The Knowledge Store returned no passage to turn i.
StoreMiss(i) == Requested(i, "consult_manual") /\ turn[i].outcome = "miss"

NotFoundText == <<"I couldn't find that in the manual.">>

\* C13 as stated: when consult_manual finds no passage the Completion
\* Provider is consulted once in the turn, the fixed "not found" text is the
\* content of the Tool Result and the reply's response.
C13_MissSkipsSummary ==
    \A i \in Turns :
        (Done(i) /\ StoreMiss(i))
        => /\ turn[i].consults = 1
           /\ turn[i].reply.kind = "reply"
           /\ turn[i].reply.response = NotFoundText
           /\ \E k \in 1..Len(history) :
                /\ IsResult(history[k]) /\ history[k].tool_call_id = turn[i].id
                /\ history[k].content = NotFoundText

\* C13 amended: when consult_manual finds no passage, the fixed "not found"
\* text, the same whatever the query and the transcript are, is appended as
\* the content of the Tool Result; the Completion Provider is then consulted
\* a second time, and the turn ends either with tool_used = "consult_manual"
\* and the provider's second message as response, that message being the
\* last entry the turn appended, or with HTTP 500 when that consultation fails.
C13_MissStillSummarized ==
    \A i \in Turns :
        (Done(i) /\ StoreMiss(i))
        => /\ turn[i].consults = 2
           /\ \E k \in 1..Len(history) :
                /\ IsResult(history[k]) /\ history[k].tool_call_id = turn[i].id
                /\ history[k].turn = i
                /\ history[k].content = NotFoundText
                /\ \/ /\ turn[i].reply.kind = "http500"
                      /\ ProviderFailed(i)
                      /\ \A l \in (k + 1)..Len(history) : history[l].turn # i
                   \/ /\ turn[i].reply.kind = "reply"
                      /\ turn[i].reply.tool_used = <<"consult_manual">>
                      /\ k < Len(history)
                      /\ history[k + 1].turn = i
                      /\ history[k + 1].role = "assistant"
                      /\ history[k + 1].tool_calls = 0
                      /\ history[k + 1].content = turn[i].reply.response
                      /\ \A l \in (k + 2)..Len(history) : history[l].turn # i

\* Two turns with different transcripts before them both missed and both
\* were summarized by the provider.
C13_Witness ==
    \E i, j \in Turns :
        /\ i < j /\ Done(i) /\ Done(j) /\ StoreMiss(i) /\ StoreMiss(j)
        /\ turn[i].arguments.topic = turn[j].arguments.topic
        /\ turn[i].tool_result = NotFoundText /\ turn[j].tool_result = NotFoundText
        /\ turn[j].consults = 2
        /\ turn[j].reply.tool_used = <<"consult_manual">>

\* C14 as stated: the transcript mutations of one turn all happen before any
\* mutation of another turn: the entries of a turn are contiguous, so no
\* message of another turn lies between a Tool Invocation Request and its
\* Tool Result, and the provider is never about to be consulted by one turn
\* while the transcript holds the unanswered request of another turn that is
\* suspended in its Tool Host call.
C14_TurnAtomicity ==
    /\ \A k, l \in 1..Len(history) :
          (k < l /\ history[k].turn = history[l].turn)
          => \A m \in k..l : history[m].turn = history[k].turn
    /\ \A i, j \in Turns :
          (i # j /\ turn[i].pc = "ask" /\ turn[j].pc = "await")
          => ~\E k \in 1..Len(history) :
                 history[k].turn = j /\ Unanswered(history, k)

\* C15: every Tool Result in the transcript has the correlation identifier
\* of exactly one earlier Tool Invocation Request, no two Tool Results share
\* an identifier, and a step that appends a Tool Result appends it for a
\* request that is in the transcript and has no Tool Result yet.
C15_CorrelationState ==
    \A l \in 1..Len(history) :
        IsResult(history[l])
        => /\ Cardinality({k \in 1..(l - 1) :
                  IsRequest(history[k])
                  /\ history[k].tool_calls = history[l].tool_call_id}) = 1
           /\ \A m \in 1..Len(history) :
                  (m # l /\ IsResult(history[m]))
                  => history[m].tool_call_id # history[l].tool_call_id

C15_Correlation ==
    /\ []C15_CorrelationState
    /\ [][(Len(history') = Len(history) + 1 /\ IsResult(Last(history')))
          => /\ SubSeq(history', 1, Len(history)) = history
             /\ \E k \in 1..Len(history) :
                   /\ IsRequest(history[k])
                   /\ history[k].tool_calls = Last(history').tool_call_id
                   /\ Unanswered(history, k)]_vars

\* A footprint request was answered after another turn's messages were
\* appended behind it, and a deploy request was answered too.
C15_Witness ==
    \E k, l, m \in 1..Len(history) :
        /\ k + 1 < l
        /\ IsRequest(history[k]) /\ IsResult(history[l])
        /\ history[l].tool_call_id = history[k].tool_calls
        /\ history[k + 1].turn # history[k].turn
        /\ IsResult(history[m]) /\ m # l

\* ------------------------------------------------- the Tool Host on its own
\* The tools handle_list_tools advertises (server.py:11-38).
HostToolNames == {"calculate_carbon_footprint", "deploy_instance"}

\* Instance types a client may send; NoArg: the key is missing.
HostInstanceTypes == {"gpu.large", "t3.medium", "m5.large", "t3.nano", NoArg}

\* A client calls a tool of the Tool Host directly, as test_client.py does,
\* and the Tool Host answers: server.py:40-68.
HostServe ==
    /\ Len(hostCalls) < MaxHostCalls
    /\ \E name \in HostToolNames, it \in HostInstanceTypes, h \in 0..MaxHostHours :
        /\ name = "deploy_instance" => h = 0
        /\ LET request == [name |-> name, instance_type |-> it, hours |-> h, turn |-> 0]
           IN  /\ hostCalls' = Append(hostCalls, request)
               /\ hostReplies' = Append(hostReplies,
                                        [request |-> request,
                                         text |-> handle_call_tool(name, it, <<h>>)])
    /\ UNCHANGED <<history, turn, loop, nextId, popped>>

HostNext == HostServe

HostSpec == Init /\ [][HostNext]_vars

\* The value of a digit piece, -1 for any other piece.
DigitValue(d) ==
    CASE d = "0" -> 0 [] d = "1" -> 1 [] d = "2" -> 2 [] d = "3" -> 3 [] d = "4" -> 4
      [] d = "5" -> 5 [] d = "6" -> 6 [] d = "7" -> 7 [] d = "8" -> 8 [] d = "9" -> 9
      [] OTHER -> -1

\* The natural number a sequence of digit pieces spells.
RECURSIVE DecimalValue(_)
DecimalValue(ds) ==
    IF ds = <<>> THEN 0
    ELSE 10 * DecimalValue(SubSeq(ds, 1, Len(ds) - 1)) + DigitValue(ds[Len(ds)])

\* The text is `hundredths`/100 written with two decimals and the suffix " kg".
IsTwoDecimalKg(text, hundredths) ==
    LET n == Len(text)
        int == SubSeq(text, 1, n - 4)
    IN  /\ n >= 5
        /\ text[n] = " kg"
        /\ text[n - 3] = "."
        /\ \A k \in (1..(n - 4)) \cup {n - 2, n - 1} : DigitValue(text[k]) >= 0
        /\ Len(int) > 1 => int[1] # "0"
        /\ DecimalValue(int) = hundredths \div 100
        /\ 10 * DigitValue(text[n - 2]) + DigitValue(text[n - 1]) = hundredths % 100

\* The rate of the claim, in hundredths of a kg per hour.
ClaimedRate(it) == IF it = "gpu.large" THEN 120 ELSE IF it = "t3.medium" THEN 5 ELSE 10

\* C16: for every instance type and every non-negative integer hours, the
\* text calculate_carbon_footprint returns is rate x hours with two decimals
\* and the suffix " kg", the rate being 1.2 for "gpu.large", 0.05 for
\* "t3.medium" and 0.1 for any other type; "gpu.large" for 10 hours gives
\* "12.00 kg".
C16_Footprint ==
    \A k \in 1..Len(hostReplies) :
        LET r == hostReplies[k].request IN
        r.name = "calculate_carbon_footprint"
        => /\ IsTwoDecimalKg(hostReplies[k].text, ClaimedRate(r.instance_type) * r.hours)
           /\ (r.instance_type = "gpu.large" /\ r.hours = 10)
              => hostReplies[k].text = <<"1", "2", ".", "0", "0", " kg">>

C16_Witness ==
    \E k \in 1..Len(hostReplies) :
        /\ hostReplies[k].request.name = "calculate_carbon_footprint"
        /\ hostReplies[k].request.instance_type = "m5.large"
        /\ hostReplies[k].request.hours = 100
        /\ hostReplies[k].text = <<"1", "0", ".", "0", "0", " kg">>

\* The turn's own request asks for a deployment the gate pauses.
Gated(i) ==
    /\ Requested(i, "deploy_instance")
    /\ HighImpact(turn[i].arguments.instance_type)
    /\ ~turn[i].approved

\* C17: approval is not persisted.  Whether a finished deploy turn is paused
\* depends only on its own approved flag and its own request, whatever the
\* other turns did; a turn gated after an approved deployment is paused
\* again; a gated turn leaves neither its request nor a result in the
\* transcript, and every deployment result in the transcript belongs to a
\* turn whose own request passed the gate.
C17_ApprovalNotPersisted ==
    /\ \A j \in Turns :
        (Done(j) /\ Requested(j, "deploy_instance")
                 /\ turn[j].arguments.instance_type # NoArg)
        => /\ turn[j].reply.requires_approval = Gated(j)
           /\ HasResult(turn[j].id) = ~Gated(j)
           /\ Gated(j) => ~HasRequest(turn[j].id)
    /\ \A k \in 1..Len(history) :
        (IsResult(history[k]) /\ history[k].content = <<"DEPLOYMENT_INITIATED">>)
        => /\ PassedGate(history[k].turn)
           /\ history[k].tool_call_id = turn[history[k].turn].id

\* An approved high-impact deployment was executed, and a later turn asking
\* for the same deployment without approval was paused.
C17_Witness ==
    \E i, j \in Turns :
        /\ Done(i) /\ Done(j)
        /\ turn[i].id # 0 /\ turn[i].id < turn[j].id
        /\ turn[i].approved /\ Requested(i, "deploy_instance")
        /\ HighImpact(turn[i].arguments.instance_type)
        /\ HasResult(turn[i].id)
        /\ Gated(j) /\ turn[j].arguments = turn[i].arguments
        /\ turn[j].reply.requires_approval
        /\ turn[j].reply.pending_action.key = "value"
        /\ ~HasRequest(turn[j].id)

\* The System message is the first and only System entry.
SystemFirstAndOnly ==
    /\ Len(history) >= 1
    /\ history[1] = SystemMessage
    /\ \A k \in 2..Len(history) : history[k].role # "system"

\* Every entry a step removes from the transcript is the last entry, a Tool
\* Invocation Request, appended by the turn that is running the step.
RemovesOwnRequest ==
    \A k \in 1..Len(history) :
        (k > Len(history') \/ history'[k] # history[k])
        => /\ k = Len(history)
           /\ loop \in Turns
           /\ IsRequest(history[k])
           /\ history[k].turn = loop
           /\ history[k].tool_calls = turn[loop].id

\* C18: under any interleaving of turns, every removal from the transcript
\* removes the Tool Invocation Request the removing turn appended; no other
\* entry is ever removed or changed, and the System message stays the first
\* and only System entry.
C18_RollbackOwnRequest ==
    [](SystemFirstAndOnly) /\ [][RemovesOwnRequest]_vars

\* The gate has removed a turn's request while another turn was suspended
\* with its own request still in the transcript.
C18_Witness ==
    \E i, j \in Turns :
        /\ i # j
        /\ turn[i].pc = "await" /\ HasRequest(turn[i].id)
        /\ Done(j) /\ turn[j].id > turn[i].id
        /\ \E k \in 1..Len(popped) :
            /\ popped[k].by = j
            /\ IsRequest(popped[k].entry)
            /\ popped[k].entry.tool_calls = turn[j].id
        /\ ~HasRequest(turn[j].id)

\* C19: a reply with requires_approval = true comes only from a turn whose
\* provider request was deploy_instance for an instance type containing
\* "gpu" with approved = false; a deploy_instance request for an instance
\* type without "gpu" executes with approved = false; no turn with
\* approved = true returns requires_approval = true.
C19_GateBlocksNothingElse ==
    \A i \in Turns :
        /\ turn[i].reply.requires_approval
           => /\ Done(i) /\ Gated(i)
              /\ Mentions(Chars(turn[i].arguments.instance_type), "g")
        /\ turn[i].approved => ~turn[i].reply.requires_approval
        /\ (/\ Done(i) /\ Requested(i, "deploy_instance") /\ ~turn[i].approved
            /\ turn[i].arguments.instance_type # NoArg
            /\ ~HighImpact(turn[i].arguments.instance_type))
           => /\ turn[i].reply.kind = "reply"
              /\ turn[i].reply.tool_used = <<"deploy_instance">>
              /\ ~turn[i].reply.requires_approval
              /\ turn[i].reply.pending_action = NoPending
              /\ HasResult(turn[i].id)

\* An unapproved deployment of a type without "gpu" was executed.
C19_Witness ==
    \E i \in Turns :
        /\ Done(i) /\ Requested(i, "deploy_instance") /\ ~turn[i].approved
        /\ turn[i].arguments.instance_type = "t3.medium"
        /\ turn[i].reply.tool_used = <<"deploy_instance">>
        /\ HasResult(turn[i].id)

=============================================================================
